---- MODULE Spec2Model ----
(***************************************************************************)
(* Model of src/app.py: the size-targeted quality search                   *)
(* (find_optimal_quality) and the two batch loops that drive it            *)
(* (convert_uploaded_files, convert_local_directory).                      *)
(***************************************************************************)
EXTENDS Integers, Sequences, FiniteSets, TLC

\* ---------------------------------------------------------------- bounds
MaxToleranceKB == 1     \* tolerance_kb ranges over 0..MaxToleranceKB
MaxSizeUnits == 3       \* encoded sizes are 1..MaxSizeUnits half-kilobytes
MaxBand == 1            \* width of the middle segment of an image's size curve
IterCap == 7            \* max_iterations ranges over MinIterations..IterCap
MaxFiles == 2           \* a batch has at most MaxFiles input files

\* ------------------------------------------------------ program constants
KB == 1024
MinTargetKB == 1         \* smallest target_kb the sidebar accepts
MinQuality == 1
MaxQuality == 100
MinIterations == 5
SizeUnit == KB \div 2   \* granularity of the encoded sizes

None == -1              \* Python None (qualities and sizes are >= 0)
Err == -2               \* img.save raised inside the search

Abs(x) == IF x < 0 THEN -x ELSE x

Qualities == MinQuality..MaxQuality
Sizes == {k * SizeUnit : k \in 1..MaxSizeUnits}

\* Encoded sizes lie half a kilobyte apart, from below to above the target
\* (only their position relative to the target matters to the search, so the
\* target itself is kept at the smallest value the sidebar accepts).
\* An image, as far as the codec is concerned: the size (or the error) that
\* img.save(format='AVIF', quality=q) produces for every q.  The curve has
\* three segments, [1,a), [a,a+w) and [a+w,100], with arbitrary values
\* (equal values on neighbouring segments give one- and two-segment curves).
Images ==
  [a : Qualities, w : 1..MaxBand,
   v1 : Sizes \cup {Err}, v2 : Sizes \cup {Err}, v3 : Sizes \cup {Err}]

\* buffer.tell() after img_copy.save(buffer, quality=q), or Err if it raised
Encode(im, q) ==
  IF q < im.a THEN im.v1
  ELSE IF q < im.a + im.w THEN im.v2
  ELSE im.v3

\* ------------------------------------------------- find_optimal_quality
\* line 149 with the iteration bound dropped
LoopCondUnbounded(lo, hi, it, mx) == lo <= hi

\* line 149: the while condition
LoopCond(lo, hi, it, mx) == lo <= hi /\ it < mx

Mid(lo, hi) == (lo + hi) \div 2

\* line 161 with <= in place of <: a later tie replaces the best
BetterOrEqual(cur, bq, bs, tgt) ==
  bq = None \/ Abs(cur - tgt) <= Abs(bs - tgt)

\* line 161: does the current attempt replace the best one?
Better(cur, bq, bs, tgt) ==
  bq = None \/ Abs(cur - tgt) < Abs(bs - tgt)

\* line 166 with < in place of <=
WithinTolStrict(cur, tgt, tol) == Abs(cur - tgt) < tol

\* line 166: early-exit test
WithinTol(cur, tgt, tol) == Abs(cur - tgt) <= tol

\* lines 174-177
NarrowHigh(cur, tgt, mid, hi) == IF cur > tgt THEN mid - 1 ELSE hi
\* line 177 with low = mid in place of low = mid + 1
NarrowLowKeepMid(cur, tgt, mid, lo) == IF cur > tgt THEN lo ELSE mid

NarrowLow(cur, tgt, mid, lo) == IF cur > tgt THEN lo ELSE mid + 1

\* line 181: a codec error is treated as "too large"
ErrorHigh(mid) == mid - 1

\* The state of one call: the locals of find_optimal_quality, the attempts
\* made so far (history) and the returned dict (valid once returned is set).
SearchStart ==
  [low |-> MinQuality, high |-> MaxQuality,
   best_quality |-> None, best_size |-> None,
   iteration |-> 0, attempts |-> <<>>, returned |-> FALSE,
   result |-> [quality |-> None, size |-> None, iterations |-> 0,
               in_tolerance |-> FALSE]]

\* One pass through the while body (lines 150-181).
LoopBody(s, im, tgt, tol) ==
  LET mid == Mid(s.low, s.high)
      it == s.iteration + 1
      cur == Encode(im, mid)
      att == Append(s.attempts, [quality |-> mid, size |-> cur])
  IN IF cur = Err
     THEN [s EXCEPT !.iteration = it, !.attempts = att,
                    !.high = ErrorHigh(mid)]
     ELSE LET upd == Better(cur, s.best_quality, s.best_size, tgt)
              bq == IF upd THEN mid ELSE s.best_quality
              bs == IF upd THEN cur ELSE s.best_size
          IN IF WithinTol(cur, tgt, tol)
             THEN [s EXCEPT !.iteration = it, !.attempts = att,
                            !.best_quality = bq, !.best_size = bs,
                            !.returned = TRUE,
                            !.result = [quality |-> mid, size |-> cur,
                                        iterations |-> it,
                                        in_tolerance |-> TRUE]]
             ELSE [s EXCEPT !.iteration = it, !.attempts = att,
                            !.best_quality = bq, !.best_size = bs,
                            !.high = NarrowHigh(cur, tgt, mid, s.high),
                            !.low = NarrowLow(cur, tgt, mid, s.low)]

\* line 187 with the abs() dropped from the recomputation
ExhaustedNoAbs(s, tgt, tol) ==
  [s EXCEPT !.returned = TRUE, !.result =
     [quality |-> s.best_quality, size |-> s.best_size,
      iterations |-> s.iteration,
      in_tolerance |-> IF s.best_size = None THEN FALSE
                       ELSE s.best_size - tgt <= tol]]

\* lines 183-188: the return after the loop
Exhausted(s, tgt, tol) ==
  [s EXCEPT !.returned = TRUE, !.result =
     [quality |-> s.best_quality, size |-> s.best_size,
      iterations |-> s.iteration,
      in_tolerance |-> IF s.best_size = None THEN FALSE
                       ELSE Abs(s.best_size - tgt) <= tol]]

RECURSIVE RunSearch(_, _, _, _, _)
RunSearch(s, im, tgt, tol, mx) ==
  IF s.returned THEN s
  ELSE IF LoopCond(s.low, s.high, s.iteration, mx)
       THEN RunSearch(LoopBody(s, im, tgt, tol), im, tgt, tol, mx)
       ELSE Exhausted(s, tgt, tol)

\* The whole call, as the batch loops use it.
find_optimal_quality(im, tgt, tol, mx) ==
  RunSearch(SearchStart, im, tgt, tol, mx)

\* ----------------------------------------------------------- batch data
\* One input file: its size on disk, the step of the loop body that raises
\* for it (if any) and the image it decodes to.
Faults == {"none", "makedirs", "getsize", "open", "save", "getsize_out"}
WebFaults == {"none", "open", "save"}
OriginalSizes == {0, 4 * SizeUnit}
BatchImages ==
  {[a |-> 1, w |-> 1, v1 |-> Err, v2 |-> Err, v3 |-> Err],
   [a |-> 40, w |-> 1, v1 |-> SizeUnit, v2 |-> 2 * SizeUnit, v3 |-> 3 * SizeUnit]}
\* (an empty file does not open as an image)
Items(fs) ==
  {it \in [original_size : OriginalSizes, fault : fs, image : BatchImages] :
     it.original_size = 0 => it.fault \in {"makedirs", "getsize", "open"}}

RECURSIVE SeqsUpTo(_, _)
SeqsUpTo(S, n) ==
  IF n = 0 THEN {<<>>}
  ELSE LET shorter == SeqsUpTo(S, n - 1)
       IN shorter \cup {Append(q, x) : q \in {r \in shorter : Len(r) = n - 1}, x \in S}

\* lines 220-226 / 436-442 (start_time is not modelled)
NewStats ==
  [converted |-> 0, failed |-> 0,
   original_size_total |-> 0, converted_size_total |-> 0]

Entry(level, event) == [level |-> level, event |-> event]

\* line 212 / 398 without the truncation
KeepLog(lg) == lg

\* line 212 / 398: open('conversion.log', 'w').close()
ClearLog(lg) == <<>>

\* lines 270 / 477 without the increment
SearchFailedUncounted(st) == st

\* lines 270 / 477: stats['failed'] += 1 before the continue
SearchFailed(st) == [st EXCEPT !.failed = @ + 1]

\* lines 305 / 497: stats['failed'] += 1 in the except clause
ConvertFailed(st) == [st EXCEPT !.failed = @ + 1]

\* lines 278+301 / 483+493
Converted(st, converted_size) ==
  [st EXCEPT !.converted_size_total = @ + converted_size,
             !.converted = @ + 1]

\* line 180: one ERROR entry per attempt that raised inside the search
RECURSIVE SearchErrors(_)
SearchErrors(atts) ==
  IF atts = <<>> THEN <<>>
  ELSE (IF Head(atts).size = Err THEN <<Entry("ERROR", "quality_error")>> ELSE <<>>)
       \o SearchErrors(Tail(atts))

\* The try block of the loop body (lines 261-305 / 471-497) for one file:
\* the new stats, the log entries written, whether progress_bar.progress is
\* reached (the continue skips it) and the converted file, if any.
TryConvert(item, st, tgt, tol, mx) ==
  IF item.fault = "open"
  THEN [stats |-> ConvertFailed(st), entries |-> <<Entry("ERROR", "convert_failed")>>,
        progress |-> TRUE, converted |-> <<>>]
  ELSE LET r == find_optimal_quality(item.image, tgt, tol, mx)
           errs == SearchErrors(r.attempts)
       IN IF r.result.quality = None
          THEN [stats |-> SearchFailed(st),
                entries |-> errs \o <<Entry("ERROR", "search_failed")>>,
                progress |-> FALSE, converted |-> <<>>]
          ELSE IF item.fault \in {"save", "getsize_out"}
          THEN [stats |-> ConvertFailed(st),
                entries |-> errs \o <<Entry("ERROR", "convert_failed")>>,
                progress |-> TRUE, converted |-> <<>>]
          ELSE LET converted_size == Encode(item.image, r.result.quality)
               IN [stats |-> Converted(st, converted_size),
                   entries |-> errs \o <<Entry("INFO", "converted")>>,
                   progress |-> TRUE,
                   converted |-> <<[original_size |-> item.original_size,
                                    converted_size |-> converted_size,
                                    quality |-> r.result.quality,
                                    iterations |-> r.result.iterations]>>]

\* ------------------------------------------------------------ variables
VARIABLES
  img, target_bytes, tol_bytes, max_iter, search,  \* one search call
  mode,             \* "web" (convert_uploaded_files) or "local"
  directory_ok,     \* os.path.isdir(directory)
  files,            \* uploaded_files / file_paths
  prev_log,         \* conversion.log as the previous run left it
  log,              \* conversion.log
  written,          \* history: the entries this run passed to the logger
  log_shown,        \* the log expander has been rendered
  stats, idx, progress, converted_files,
  pc, exc

search_vars == <<img, target_bytes, tol_bytes, max_iter, search>>
config_vars == <<target_bytes, tol_bytes, max_iter>>
batch_vars == <<mode, directory_ok, files, prev_log, log, written, log_shown, stats, idx,
                progress, converted_files, pc, exc>>
vars == <<img, target_bytes, tol_bytes, max_iter, search,
          mode, directory_ok, files, prev_log, log, written, log_shown, stats, idx,
          progress, converted_files, pc, exc>>

total == Len(files)

\* ---------------------------------------- specification of one search call
SearchInit ==
  /\ img \in Images
  /\ target_bytes = MinTargetKB * KB
  /\ \E okb \in 0..MaxToleranceKB : tol_bytes = okb * KB
  /\ max_iter \in MinIterations..IterCap
  /\ search = SearchStart
  /\ mode = "web" /\ directory_ok = TRUE /\ files = <<>>
  /\ prev_log = <<>> /\ log = <<>> /\ written = <<>> /\ log_shown = FALSE
  /\ stats = NewStats /\ idx = 0 /\ progress = <<>> /\ converted_files = <<>>
  /\ pc = "search" /\ exc = "none"

Probe ==
  /\ pc = "search"
  /\ ~search.returned
  /\ LoopCond(search.low, search.high, search.iteration, max_iter)
  /\ search' = LoopBody(search, img, target_bytes, tol_bytes)
  /\ UNCHANGED <<img, target_bytes, tol_bytes, max_iter>>
  /\ UNCHANGED batch_vars

ReturnBest ==
  /\ pc = "search"
  /\ ~search.returned
  /\ ~LoopCond(search.low, search.high, search.iteration, max_iter)
  /\ search' = Exhausted(search, target_bytes, tol_bytes)
  /\ UNCHANGED <<img, target_bytes, tol_bytes, max_iter>>
  /\ UNCHANGED batch_vars

SearchNext == Probe \/ ReturnBest

SpecSearch == SearchInit /\ [][SearchNext]_vars

\* The call runs to completion: nothing in the loop blocks or suspends.
FairSpecSearch == SpecSearch /\ WF_vars(SearchNext)

\* ------------------------------------------- specification of a batch run
BatchInit ==
  /\ mode \in {"web", "local"}
  /\ directory_ok \in BOOLEAN
  /\ mode = "web" => directory_ok
  /\ files \in SeqsUpTo(Items(IF mode = "web" THEN WebFaults ELSE Faults), MaxFiles)
  /\ ~directory_ok => files = <<>>
  /\ target_bytes = MinTargetKB * KB
  /\ \E okb \in 0..MaxToleranceKB : tol_bytes = okb * KB
  /\ max_iter = MinIterations
  /\ prev_log \in {<<>>, <<Entry("INFO", "previous_run")>>}
  /\ log = prev_log /\ written = <<>> /\ log_shown = FALSE
  /\ stats = NewStats /\ idx = 0 /\ progress = <<>> /\ converted_files = <<>>
  /\ pc = "start" /\ exc = "none"
  /\ img = CHOOSE im \in BatchImages : TRUE
  /\ search = SearchStart

\* convert_uploaded_files, lines 207-234
UploadedPreflight ==
  /\ mode = "web" /\ pc = "start"
  /\ IF files = <<>>
     THEN /\ pc' = "aborted_empty"
          /\ UNCHANGED <<log, written, stats>>
     ELSE /\ log' = Append(ClearLog(log), Entry("INFO", "start"))
          /\ written' = Append(written, Entry("INFO", "start"))
          /\ stats' = NewStats
          /\ pc' = "loop"
  /\ UNCHANGED <<mode, directory_ok, files, prev_log, log_shown, idx, progress,
                 converted_files, exc>>
  /\ UNCHANGED search_vars

\* convert_local_directory, lines 392-451
LocalPreflight ==
  /\ mode = "local" /\ pc = "start"
  /\ IF ~directory_ok
     THEN /\ log' = Append(log, Entry("ERROR", "invalid_directory"))
          /\ written' = Append(written, Entry("ERROR", "invalid_directory"))
          /\ pc' = "aborted_invalid"
          /\ UNCHANGED stats
     ELSE IF total = 0
     THEN /\ log' = ClearLog(log) \o <<Entry("INFO", "start"),
                                       Entry("WARNING", "no_target_files")>>
          /\ written' = written \o <<Entry("INFO", "start"),
                                     Entry("WARNING", "no_target_files")>>
          /\ pc' = "aborted_empty"
          /\ UNCHANGED stats
     ELSE /\ log' = Append(ClearLog(log), Entry("INFO", "start"))
          /\ written' = Append(written, Entry("INFO", "start"))
          /\ stats' = NewStats
          /\ pc' = "loop"
  /\ UNCHANGED <<mode, directory_ok, files, prev_log, log_shown, idx, progress,
                 converted_files, exc>>
  /\ UNCHANGED search_vars

\* convert_uploaded_files, one pass of the for loop, lines 236-308
UploadedItem ==
  /\ mode = "web" /\ pc = "loop" /\ idx < total
  /\ LET item == files[idx + 1]
         st == [stats EXCEPT !.original_size_total = @ + item.original_size]
         r == TryConvert(item, st, target_bytes, tol_bytes, max_iter)
     IN /\ stats' = r.stats
        /\ log' = log \o r.entries
        /\ written' = written \o r.entries
        /\ converted_files' = converted_files \o r.converted
        /\ progress' = IF r.progress THEN Append(progress, idx + 1) ELSE progress
        /\ idx' = idx + 1
  /\ UNCHANGED <<mode, directory_ok, files, prev_log, log_shown, pc, exc>>
  /\ UNCHANGED search_vars

\* convert_local_directory, one pass of the for loop, lines 453-499
LocalItem ==
  /\ mode = "local" /\ pc = "loop" /\ idx < total
  /\ LET item == files[idx + 1]
     IN IF item.fault \in {"makedirs", "getsize"}
        THEN \* os.makedirs / os.path.getsize raise outside the try block
             /\ pc' = "raised" /\ exc' = "OSError"
             /\ UNCHANGED <<stats, log, written, converted_files, progress, idx>>
        ELSE LET st == [stats EXCEPT !.original_size_total = @ + item.original_size]
                 r == TryConvert(item, st, target_bytes, tol_bytes, max_iter)
             IN /\ stats' = r.stats
                /\ log' = log \o r.entries
                /\ written' = written \o r.entries
                /\ converted_files' = converted_files \o r.converted
                /\ progress' = IF r.progress THEN Append(progress, idx + 1)
                               ELSE progress
                /\ idx' = idx + 1
                /\ UNCHANGED <<pc, exc>>
  /\ UNCHANGED <<mode, directory_ok, files, prev_log, log_shown>>
  /\ UNCHANGED search_vars

\* lines 310-388 / 501-533: the result display, the final log entry (whose
\* f-string divides by original_size_total) and the log expander
Summary ==
  IF stats.original_size_total = 0
  THEN /\ pc' = "raised" /\ exc' = "ZeroDivisionError"
       /\ UNCHANGED <<log, written, log_shown>>
  ELSE /\ log' = Append(log, Entry("INFO", "summary"))
       /\ written' = Append(written, Entry("INFO", "summary"))
       /\ log_shown' = TRUE
       /\ pc' = "done"
       /\ UNCHANGED exc

UploadedSummary ==
  /\ mode = "web" /\ pc = "loop" /\ idx = total
  /\ Summary
  /\ UNCHANGED <<mode, directory_ok, files, prev_log, stats, idx, progress,
                 converted_files>>
  /\ UNCHANGED search_vars

LocalSummary ==
  /\ mode = "local" /\ pc = "loop" /\ idx = total
  /\ Summary
  /\ UNCHANGED <<mode, directory_ok, files, prev_log, stats, idx, progress,
                 converted_files>>
  /\ UNCHANGED search_vars

BatchNext ==
  \/ UploadedPreflight \/ UploadedItem \/ UploadedSummary
  \/ LocalPreflight \/ LocalItem \/ LocalSummary

SpecBatch == BatchInit /\ [][BatchNext]_vars

\* ------------------------------------------------ properties of the search
Returned == search.returned
res == search.result
Attempts == search.attempts
Dist(sz) == Abs(sz - target_bytes)
InTol(sz) == sz # Err /\ Dist(sz) <= tol_bytes
SomeLevelInTol == \E q \in Qualities : InTol(Encode(img, q))
SomeAttemptInTol == \E i \in 1..Len(Attempts) : InTol(Attempts[i].size)
ResultInTol ==
  /\ res.in_tolerance
  /\ res.quality \in Qualities
  /\ res.size = Encode(img, res.quality)
  /\ InTol(res.size)

\* C1 (as stated): whenever some quality level in 1..100 encodes within
\* tolerance of the target, the search returns in_tolerance = true and a
\* quality whose encoded size is within tolerance.
C1_AnyLevelInTolIsFound ==
  (Returned /\ SomeLevelInTol) => ResultInTol

\* C1 (amended): whenever some quality level the search attempts encodes
\* within tolerance of the target, the search stops at that attempt and
\* returns in_tolerance = true with that quality and its size.
C1_AttemptedLevelInTolIsFound ==
  (Returned /\ SomeAttemptInTol) =>
     /\ ResultInTol
     /\ res.quality = Attempts[Len(Attempts)].quality
     /\ res.size = Attempts[Len(Attempts)].size
     /\ \A i \in 1..(Len(Attempts) - 1) : ~InTol(Attempts[i].size)

C1_Witness ==
  /\ Returned
  /\ Len(Attempts) >= 3
  /\ InTol(Attempts[Len(Attempts)].size)
  /\ Dist(Attempts[Len(Attempts)].size) = tol_bytes
  /\ \E i \in 1..(Len(Attempts) - 1) : Attempts[i].size = Err
  /\ res.in_tolerance

\* C2 (safety part): the search never makes more than max_iter encode
\* attempts, its counter equals the number of attempts made, and the
\* 'iterations' it returns is that number.
C2_AttemptsBounded ==
  /\ Len(Attempts) <= max_iter
  /\ search.iteration = Len(Attempts)
  /\ Returned => res.iterations = Len(Attempts)

\* C2: find_optimal_quality always terminates, and it never makes more
\* than max_iter encode attempts (failing ones included); the 'iterations'
\* it returns equals the number of attempts it made.
C2_TerminatesWithinBound == []C2_AttemptsBounded /\ <>Returned

C2_Witness ==
  /\ Returned
  /\ Len(Attempts) = max_iter
  /\ search.low <= search.high
  /\ \E i \in 1..Len(Attempts) : Attempts[i].size = Err
  /\ res.iterations = max_iter

C11_InToleranceExact ==
  Returned =>
     /\ res.in_tolerance <=> (res.quality # None /\ InTol(res.size))
     /\ ~res.in_tolerance => ~SomeAttemptInTol
     /\ res.in_tolerance => InTol(Attempts[Len(Attempts)].size)

\* C11: in_tolerance = true is returned only by the early exit: the return
\* after the loop (low > high or iteration = max_iter) always reports
\* in_tolerance = false although it recomputes it against the best attempt;
\* so in every result in_tolerance holds exactly when a quality is present
\* within tolerance, and false means no attempt was within tolerance.
C11_InToleranceOnlyByEarlyExit ==
  /\ []C11_InToleranceExact
  /\ [][(~search.returned
          /\ ~LoopCond(search.low, search.high, search.iteration, max_iter))
        => ~search'.result.in_tolerance]_vars

C11_Witness ==
  /\ Returned
  /\ ~LoopCond(search.low, search.high, search.iteration, max_iter)
  /\ res.quality # None
  /\ ~res.in_tolerance
  /\ Len(Attempts) >= 2
  /\ ~InTol(Attempts[Len(Attempts)].size)
  /\ \E i \in 1..Len(Attempts) : Attempts[i].size = Err

\* ---- monotone codecs
NoCodecError == \A q \in Qualities : Encode(img, q) # Err
Monotone ==
  \A q \in MinQuality..(MaxQuality - 1) : Encode(img, q) <= Encode(img, q + 1)

\* the number of probes a binary search over 1..100 can need
ProbesNeeded ==
  CHOOSE k \in 1..MaxQuality :
     2^(k - 1) <= MaxQuality - MinQuality + 1 /\ MaxQuality - MinQuality + 1 < 2^k

\* C10: with a codec that never raises and whose size is non-decreasing in
\* quality, and max_iter >= 7, the search returns in_tolerance = true
\* whenever some quality level in 1..100 encodes within tolerance.
C10_MonotoneCodecFound ==
  (Returned /\ NoCodecError /\ Monotone /\ max_iter >= ProbesNeeded
     /\ SomeLevelInTol) => ResultInTol

C10_Witness ==
  /\ Returned
  /\ NoCodecError /\ Monotone /\ SomeLevelInTol
  /\ max_iter = ProbesNeeded
  /\ Len(Attempts) = ProbesNeeded
  /\ Cardinality({q \in Qualities : InTol(Encode(img, q))}) = 1
  /\ res.in_tolerance

\* C10, second half: with max_iter < 7 the same search can return
\* in_tolerance = false although a level within tolerance exists.
C10_MissedBelowSeven ==
  /\ Returned
  /\ NoCodecError /\ Monotone /\ SomeLevelInTol
  /\ max_iter < ProbesNeeded
  /\ ~res.in_tolerance

C10_NeverMissedBelowSeven == ~C10_MissedBelowSeven

\* ----------------------------------------------- properties of a batch run
RECURSIVE SumField(_, _)
SumField(sq, f) == IF sq = <<>> THEN 0 ELSE Head(sq)[f] + SumField(Tail(sq), f)

InLoop == pc = "loop"
LoopFinished == (pc = "loop" /\ idx = total) \/ pc = "done"
                  \/ (pc = "raised" /\ exc = "ZeroDivisionError")
RunEnded == pc \in {"done", "raised", "aborted_empty", "aborted_invalid"}
Logged(event) == \E i \in 1..Len(log) : log[i].event = event

\* C4: at every loop boundary converted + failed is the number of files
\* processed so far, and when the loop has finished it equals total.
C4_CountsAddUp ==
  /\ pc \in {"loop", "done", "raised"} => stats.converted + stats.failed = idx
  /\ LoopFinished => stats.converted + stats.failed = total

C4_Witness ==
  /\ pc = "done"
  /\ total >= 2
  /\ stats.converted >= 1
  /\ Logged("search_failed")
  /\ stats.converted + stats.failed = total

\* C5: a per-file error never stops the run: a run that got past the
\* pre-flight checks ends only after every file has been processed, and a
\* run stopped by a pre-flight error has processed nothing.
C5_PerItemErrorsIsolated ==
  /\ pc \in {"done", "raised"} => idx = total
  /\ pc \in {"aborted_empty", "aborted_invalid"} => idx = 0 /\ stats = NewStats

\* C6: a run that got past the pre-flight checks and processed its files
\* ends with the final summary entry written and the log shown, also when
\* original_size_total is 0.
C6_SummaryAlwaysEmitted ==
  (RunEnded /\ idx = total /\ total > 0) =>
     /\ pc = "done"
     /\ log_shown
     /\ log[Len(log)] = Entry("INFO", "summary")

\* C7 (as stated): a run over zero eligible files stops without processing
\* or summary, and its log holds nothing but the single empty-input warning.
C7_EmptyRunLogsOnlyWarning ==
  pc = "aborted_empty" =>
     /\ idx = 0 /\ stats = NewStats /\ progress = <<>> /\ ~log_shown
     /\ \A i \in 1..Len(written) : written[i] = Entry("WARNING", "no_target_files")
     /\ Len(written) <= 1

\* C7 (amended): a run over zero eligible files stops without processing
\* or summary; in local mode its log holds exactly the start entry followed
\* by the single empty-input warning, and in web mode the run writes no
\* entry and leaves the log file as it found it.
C7_EmptyRunLog ==
  pc = "aborted_empty" =>
     /\ idx = 0 /\ stats = NewStats /\ progress = <<>> /\ ~log_shown
     /\ converted_files = <<>>
     /\ ~Logged("summary")
     /\ mode = "local" =>
           /\ log = <<Entry("INFO", "start"), Entry("WARNING", "no_target_files")>>
           /\ written = log
     /\ mode = "web" => written = <<>> /\ log = prev_log

C7_Witness ==
  /\ pc = "aborted_empty"
  /\ mode = "local"
  /\ prev_log # <<>>
  /\ Len(log) = 2

\* C8: after each file, however it ended, a progress update idx/total is
\* emitted: at every loop boundary the updates are 1, 2, ..., idx.
C8_ProgressAfterEachItem ==
  pc \in {"loop", "done"} => progress = [i \in 1..idx |-> i]

\* C9: the size totals cover the converted files only: at every loop
\* boundary original_size_total is the sum of the original sizes of the
\* converted files and converted_size_total the sum of their converted sizes.
C9_TotalsCoverConvertedOnly ==
  pc \in {"loop", "done", "raised"} =>
     /\ stats.original_size_total = SumField(converted_files, "original_size")
     /\ stats.converted_size_total = SumField(converted_files, "converted_size")
     /\ stats.converted = Len(converted_files)
====
